---- MODULE Spec2Model ----
(***************************************************************************)
(* A model of src/look_transform.rs of smooth-bevy-cameras: the            *)
(* LookTransform value type and its conversion to a scene Transform, the   *)
(* Smoother (exponential smoothing of eye and target), and the per-frame   *)
(* look_transform_system.                                                  *)
(*                                                                         *)
(* f32 is modelled as a small binary floating-point format with the IEEE   *)
(* 754 behaviour the code relies on: Precision significand bits, gradual   *)
(* underflow, round to nearest (ties to even), overflow to infinity and    *)
(* NaN.  A finite float is the integer number of grid units of 2^-Scale it *)
(* is worth; Inf, NegInf and NaN are integers outside the finite range.    *)
(* Negative zero is not distinguished from zero.                           *)
(***************************************************************************)
EXTENDS Integers, Sequences, FiniteSets, TLC

\* ------------------------------------------------------------------------
\* Bounds of the model
\* ------------------------------------------------------------------------
Precision == 3
Scale == 5
MaxExp == 6
MaxFrames == 2
MaxCalls == 3

\* ------------------------------------------------------------------------
\* f32
\* ------------------------------------------------------------------------
RECURSIVE Pow2(_)
Pow2(n) == IF n = 0 THEN 1 ELSE 2 * Pow2(n - 1)

One == Pow2(Scale)
\* 2^Precision: a significand is below it
Radix == Pow2(Precision)
Half == One \div 2
Quarter == One \div 4
MaxFloat == (Radix - 1) * Pow2(MaxExp)
Inf == MaxFloat + 1
NegInf == 0 - Inf
NaN == MaxFloat + 2

Abs(x) == IF x < 0 THEN 0 - x ELSE x

IsNaN(x) == x = NaN
IsFinite(x) == x >= 0 - MaxFloat /\ x <= MaxFloat
\* the comparisons of f32: false when an operand is NaN
FLt(a, b) == ~IsNaN(a) /\ ~IsNaN(b) /\ a < b
FLe(a, b) == ~IsNaN(a) /\ ~IsNaN(b) /\ a <= b

\* the spacing of the floats around the magnitude n/d
RECURSIVE Spacing(_, _, _)
Spacing(n, d, s) == IF n < Radix * s * d THEN s ELSE Spacing(n, d, 2 * s)

\* n/d rounded to the nearest integer, ties to even
NearestEven(n, d) ==
    LET q == n \div d
        r == n % d
    IN  IF 2 * r < d THEN q
        ELSE IF 2 * r > d THEN q + 1
        ELSE IF q % 2 = 0 THEN q ELSE q + 1

RoundMag(n, d) ==
    LET s == Spacing(n, d, 1)
        m == s * NearestEven(n, d * s)
    IN  IF m > MaxFloat THEN Inf ELSE m

\* the float nearest to the real number n/d (d > 0)
Round(n, d) == IF n < 0 THEN 0 - RoundMag(0 - n, d) ELSE RoundMag(n, d)

FNeg(a) == IF IsNaN(a) THEN NaN ELSE 0 - a

FAdd(a, b) ==
    IF IsNaN(a) \/ IsNaN(b) THEN NaN
    ELSE IF ~IsFinite(a) THEN (IF ~IsFinite(b) /\ b # a THEN NaN ELSE a)
    ELSE IF ~IsFinite(b) THEN b
    ELSE Round(a + b, 1)

FSub(a, b) == FAdd(a, FNeg(b))

FMul(a, b) ==
    IF IsNaN(a) \/ IsNaN(b) THEN NaN
    ELSE IF ~IsFinite(a) \/ ~IsFinite(b)
         THEN (IF a = 0 \/ b = 0 THEN NaN
               ELSE IF (a < 0) = (b < 0) THEN Inf ELSE NegInf)
    ELSE Round(a * b, One)

\* f32::recip: 1.0 / a
FRecip(a) ==
    IF IsNaN(a) THEN NaN
    ELSE IF ~IsFinite(a) THEN 0
    ELSE IF a = 0 THEN Inf
    ELSE IF a < 0 THEN 0 - RoundMag(One * One, 0 - a)
    ELSE RoundMag(One * One, a)

\* the integer part of the square root of n, sought between lo and hi
RECURSIVE ISqrtIn(_, _, _)
ISqrtIn(n, lo, hi) ==
    IF lo = hi THEN lo
    ELSE LET mid == (lo + hi + 1) \div 2
         IN  IF mid * mid <= n THEN ISqrtIn(n, mid, hi) ELSE ISqrtIn(n, lo, mid - 1)
ISqrt(n) == ISqrtIn(n, 0, MaxFloat)

\* the spacing of the floats around the square root of n
RECURSIVE SqrtSpacing(_, _)
SqrtSpacing(n, s) ==
    IF n < Radix * s * Radix * s THEN s ELSE SqrtSpacing(n, 2 * s)

\* f32::sqrt, correctly rounded
FSqrt(a) ==
    IF IsNaN(a) \/ a < 0 THEN NaN
    ELSE IF ~IsFinite(a) THEN Inf
    ELSE LET n == a * One
             s == SqrtSpacing(n, 1)
             q == ISqrt(n \div (s * s))
         IN  IF 4 * n > (2 * q + 1) * (2 * q + 1) * s * s THEN s * (q + 1) ELSE s * q

\* ------------------------------------------------------------------------
\* Vec3
\* ------------------------------------------------------------------------
Vec3(x, y, z) == <<x, y, z>>
VAdd(a, b) == <<FAdd(a[1], b[1]), FAdd(a[2], b[2]), FAdd(a[3], b[3])>>
VSub(a, b) == <<FSub(a[1], b[1]), FSub(a[2], b[2]), FSub(a[3], b[3])>>
VScale(a, s) == <<FMul(a[1], s), FMul(a[2], s), FMul(a[3], s)>>
VDot(a, b) == FAdd(FAdd(FMul(a[1], b[1]), FMul(a[2], b[2])), FMul(a[3], b[3]))
VLength(a) == FSqrt(VDot(a, a))
VLengthRecip(a) == FRecip(VLength(a))
VIsFinite(a) == IsFinite(a[1]) /\ IsFinite(a[2]) /\ IsFinite(a[3])
VNormalize(a) == VScale(a, VLengthRecip(a))
\* Option<Vec3>: <<>> is None, <<v>> is Some(v)
VTryNormalize(a) ==
    LET rcp == VLengthRecip(a)
    IN  IF IsFinite(rcp) /\ rcp > 0 THEN <<VScale(a, rcp)>> ELSE <<>>

VecZero == Vec3(0, 0, 0)
VecOne == Vec3(One, One, One)
VecX == Vec3(One, 0, 0)
VecY == Vec3(0, One, 0)
VecZ == Vec3(0, 0, One)

\* Option<T>: <<>> is None, <<v>> is Some(v)
None == <<>>
Some(v) == <<v>>
IsSome(o) == o # <<>>
Unwrap(o) == o[1]

\* ------------------------------------------------------------------------
\* bevy's Transform; the rotation is kept as the pair (forward, up) that
\* Transform::look_at builds the rotation from
\* ------------------------------------------------------------------------
IdentityRotation == <<VecZ, VecY>>

from_translation(translation) ==
    [translation |-> translation, rotation |-> IdentityRotation, scale |-> VecOne]

looking_at(t, target, up) ==
    LET forward == VNormalize(VSub(t.translation, target))
    IN  [t EXCEPT !.rotation = <<forward, up>>]

\* no component of the transform is NaN or infinite
TransformIsFinite(t) ==
    /\ VIsFinite(t.translation)
    /\ VIsFinite(t.scale)
    /\ \A i \in 1..2 : VIsFinite(t.rotation[i])

\* ------------------------------------------------------------------------
\* LookTransform
\* ------------------------------------------------------------------------
LookTransform(eye, target, up, enabled) ==
    [eye |-> eye, target |-> target, up |-> up, enabled |-> enabled]

LookTransform_new(eye, target) == LookTransform(eye, target, VecY, TRUE)

radius(self) == VLength(VSub(self.target, self.eye))

\* look_direction with normalize in place of try_normalize
look_direction_normalized(self) == Some(VNormalize(VSub(self.target, self.eye)))

look_direction(self) == VTryNormalize(VSub(self.target, self.eye))

eye_look_at_target_transform(eye, target, up) ==
    LET look_vector == VNormalize(VSub(target, eye))
        look_at == VAdd(eye, look_vector)
    IN  looking_at(from_translation(eye), look_at, up)

\* impl From<LookTransform> for Transform
into(t) == eye_look_at_target_transform(t.eye, t.target, t.up)

\* ------------------------------------------------------------------------
\* Smoother
\* ------------------------------------------------------------------------
Smoother_new(lag_weight) == [lag_weight |-> lag_weight, lerp_tfm |-> None]

\* set_lag_weight starting the Smoother afresh
set_lag_weight_resetting(self, lag_weight) == Smoother_new(lag_weight)

set_lag_weight(self, lag_weight) == [self EXCEPT !.lag_weight = lag_weight]

\* the two debug_assert!s at the start of smooth_transform
LagWeightInRange(lag_weight) == FLe(0, lag_weight) /\ FLt(lag_weight, One)

\* old * lag_weight + new * lead_weight
Blend(old, new, lag_weight, lead_weight) ==
    VAdd(VScale(old, lag_weight), VScale(new, lead_weight))

\* Smoothed blending whenever the stored value is enabled, whatever the flag
\* of the new value
SmoothedIgnoringNewFlag(self, new_tfm) ==
    LET old_lerp_tfm == IF IsSome(self.lerp_tfm) THEN Unwrap(self.lerp_tfm) ELSE new_tfm
        lead_weight == FSub(One, self.lag_weight)
    IN  IF old_lerp_tfm.enabled
        THEN [new_tfm EXCEPT
                !.eye = Blend(old_lerp_tfm.eye, new_tfm.eye, self.lag_weight, lead_weight),
                !.target = Blend(old_lerp_tfm.target, new_tfm.target,
                                 self.lag_weight, lead_weight)]
        ELSE new_tfm

\* Smoothed blending whenever the new value is enabled, whatever the flag of
\* the stored value
SmoothedIgnoringOldFlag(self, new_tfm) ==
    LET old_lerp_tfm == IF IsSome(self.lerp_tfm) THEN Unwrap(self.lerp_tfm) ELSE new_tfm
        lead_weight == FSub(One, self.lag_weight)
    IN  IF new_tfm.enabled
        THEN [new_tfm EXCEPT
                !.eye = Blend(old_lerp_tfm.eye, new_tfm.eye, self.lag_weight, lead_weight),
                !.target = Blend(old_lerp_tfm.target, new_tfm.target,
                                 self.lag_weight, lead_weight)]
        ELSE new_tfm

\* Smoothed taking the fields it does not blend from the stored value
SmoothedKeepingOldFields(self, new_tfm) ==
    LET old_lerp_tfm == IF IsSome(self.lerp_tfm) THEN Unwrap(self.lerp_tfm) ELSE new_tfm
    IN  IF new_tfm.enabled /\ old_lerp_tfm.enabled
        THEN LET lead_weight == FSub(One, self.lag_weight)
             IN  [old_lerp_tfm EXCEPT
                    !.eye = Blend(old_lerp_tfm.eye, new_tfm.eye, self.lag_weight, lead_weight),
                    !.target = Blend(old_lerp_tfm.target, new_tfm.target,
                                     self.lag_weight, lead_weight)]
        ELSE new_tfm

\* Smoothed with the two weights exchanged
SmoothedWeightsSwapped(self, new_tfm) ==
    LET old_lerp_tfm == IF IsSome(self.lerp_tfm) THEN Unwrap(self.lerp_tfm) ELSE new_tfm
    IN  IF new_tfm.enabled /\ old_lerp_tfm.enabled
        THEN LET lead_weight == FSub(One, self.lag_weight)
             IN  [new_tfm EXCEPT
                    !.eye = Blend(old_lerp_tfm.eye, new_tfm.eye, lead_weight, self.lag_weight),
                    !.target = Blend(old_lerp_tfm.target, new_tfm.target,
                                     lead_weight, self.lag_weight)]
        ELSE new_tfm

\* Smoothed holding on to the stored value while the new one is disabled
SmoothedKeepingStoredWhenDisabled(self, new_tfm) ==
    LET old_lerp_tfm == IF IsSome(self.lerp_tfm) THEN Unwrap(self.lerp_tfm) ELSE new_tfm
    IN  IF new_tfm.enabled /\ old_lerp_tfm.enabled
        THEN LET lead_weight == FSub(One, self.lag_weight)
             IN  [new_tfm EXCEPT
                    !.eye = Blend(old_lerp_tfm.eye, new_tfm.eye, self.lag_weight, lead_weight),
                    !.target = Blend(old_lerp_tfm.target, new_tfm.target,
                                     self.lag_weight, lead_weight)]
        ELSE IF new_tfm.enabled THEN new_tfm ELSE old_lerp_tfm

\* the value smooth_transform returns (and stores)
Smoothed(self, new_tfm) ==
    LET old_lerp_tfm == IF IsSome(self.lerp_tfm) THEN Unwrap(self.lerp_tfm) ELSE new_tfm
    IN  IF new_tfm.enabled /\ old_lerp_tfm.enabled
        THEN LET lead_weight == FSub(One, self.lag_weight)
             IN  [new_tfm EXCEPT
                    !.eye = Blend(old_lerp_tfm.eye, new_tfm.eye, self.lag_weight, lead_weight),
                    !.target = Blend(old_lerp_tfm.target, new_tfm.target,
                                     self.lag_weight, lead_weight)]
        ELSE new_tfm

\* smooth_transform storing its argument, not the value it returns
smooth_transform_storing_input(self, new_tfm) ==
    [self |-> [self EXCEPT !.lerp_tfm = Some(new_tfm)], ret |-> Smoothed(self, new_tfm)]

\* smooth_transform past its assertions: the Smoother afterwards and the
\* value returned
smooth_transform(self, new_tfm) ==
    LET lerp_tfm == Smoothed(self, new_tfm)
    IN  [self |-> [self EXCEPT !.lerp_tfm = Some(lerp_tfm)], ret |-> lerp_tfm]

\* ------------------------------------------------------------------------
\* State
\* ------------------------------------------------------------------------
VARIABLES
    debug_assertions,   \* the build: TRUE when debug_assert! is compiled in
    panicked,           \* a debug assertion has failed and the program is gone
    sm,                 \* a Smoother driven directly through its methods
    call,               \* the last smooth_transform call on sm: self before,
                        \* argument, result
    repeated,           \* that call had the argument of the call before it
    ncalls,             \* smooth_transform calls on sm since Smoother::new
    look,               \* entity -> Option<LookTransform>
    scene,              \* entity -> Option<Transform>
    smoother,           \* entity -> Option<Smoother>
    rig,                \* entity -> what the controller has done to its LookTransform
    frame,              \* runs of look_transform_system so far
    last_run,           \* Some(record of the run) right after look_transform_system, else None
    lt,                 \* a LookTransform whose methods are called directly
    result              \* the last method called on lt and what it returned

unit_vars == <<sm, call, repeated, ncalls>>
world_vars == <<look, scene, smoother, rig, frame, last_run>>
value_vars == <<lt, result>>
vars == <<debug_assertions, panicked, sm, call, repeated, ncalls,
          look, scene, smoother, rig, frame, last_run, lt, result>>

\* ------------------------------------------------------------------------
\* Inputs
\* ------------------------------------------------------------------------
\* lag weights handed to Smoother::new and set_lag_weight: 0, 3/8, 3/4 and,
\* as nothing in the code prevents it, 1
LagWeights == {0, 3 * (One \div 8), 3 * Quarter, One}

EyeA == Vec3(7 * Quarter, One, 0)
EyeB == Vec3(7 * Half, 0, 0 - One)
TargetA == VecZero
TargetB == Vec3(5 * One, 0 - 3 * Half, One)

\* the values handed to smooth_transform: three places, enabled or not, the
\* first of them with either of two ups
SmoothInputs == {LookTransform(p[1], p[2], p[3], en) :
                    p \in {<<EyeA, TargetA, VecY>>, <<EyeA, TargetA, VecZ>>,
                           <<EyeB, TargetA, VecY>>, <<EyeB, TargetB, VecY>>},
                    en \in BOOLEAN}

\* the places a controller puts a rig: an eye and a target
Poses == {<<EyeA, TargetA>>, <<EyeB, TargetB>>}
\* the lag weights of the world's Smoothers: 0, 3/8 and 1
WorldLagWeights == {0, 3 * (One \div 8), One}

NoCall == [name |-> "none", self |-> None, arg |-> None, ret |-> None]

\* The entities of the world: Camera has a LookTransform, a Transform and a
\* Smoother; Plain has a LookTransform and a Transform; NoLook has a
\* Transform and a Smoother; NoScene has a LookTransform and a Smoother.
Camera == "camera"
Plain == "plain"
NoLook == "no_look"
NoScene == "no_scene"
Entities == {Camera, Plain, NoLook, NoScene}
\* the entities whose LookTransform an external controller enables and
\* disables; it moves the Camera only
Rigs == {Camera, Plain}

\* the values a scene Transform may hold before the first frame: the
\* identity, and one that differs from it in translation, rotation and scale
Elsewhere == [translation |-> VecOne, rotation |-> <<VecX, VecZ>>,
              scale |-> Vec3(2 * One, 2 * One, 2 * One)]
PriorTransforms == {from_translation(VecZero), Elsewhere}

NoWorld == [e \in Entities |-> None]

\* the smallest positive f32 and the largest
Tiny == Pow2(0)
\* eyes and targets of the LookTransforms whose methods are called directly
ValueVecs == {VecZero, VecOne, Vec3(0, 0, 5 * One), Vec3(3 * One, 4 * One, 0),
              Vec3(Tiny, 0, 0), Vec3(0, 0 - 5 * Tiny, 0), Vec3(MaxFloat, 0, 0)}
ValueInputs == {LookTransform(e, t, VecY, en) :
                   e \in ValueVecs, t \in ValueVecs, en \in BOOLEAN}
NoResult == [name |-> "none", ret |-> None]

\* ------------------------------------------------------------------------
\* The Smoother, method by method
\* ------------------------------------------------------------------------
SmootherInit ==
    /\ debug_assertions \in BOOLEAN
    /\ panicked = FALSE
    /\ \E w \in LagWeights : sm = Smoother_new(w)
    /\ call = NoCall
    /\ repeated = FALSE
    /\ ncalls = 0
    /\ look = NoWorld /\ scene = NoWorld /\ smoother = NoWorld /\ rig = NoWorld
    /\ frame = 0
    /\ last_run = None
    /\ lt = None /\ result = NoResult

NewSmoother(w) ==
    /\ ~panicked
    /\ sm' = Smoother_new(w)
    /\ call' = NoCall
    /\ repeated' = FALSE
    /\ ncalls' = 0
    /\ UNCHANGED <<debug_assertions, panicked>>
    /\ UNCHANGED world_vars
    /\ UNCHANGED value_vars

SetLagWeight(w) ==
    /\ ~panicked
    /\ sm' = set_lag_weight(sm, w)
    /\ UNCHANGED <<debug_assertions, panicked, call, repeated, ncalls>>
    /\ UNCHANGED world_vars
    /\ UNCHANGED value_vars

SmoothTransform(new_tfm) ==
    /\ ~panicked
    /\ ncalls < MaxCalls
    /\ UNCHANGED world_vars
    /\ UNCHANGED value_vars
    /\ IF debug_assertions /\ ~LagWeightInRange(sm.lag_weight)
       THEN /\ panicked' = TRUE
            /\ UNCHANGED <<debug_assertions, sm, call, repeated, ncalls>>
       ELSE LET r == smooth_transform(sm, new_tfm)
            IN  /\ sm' = r.self
                /\ call' = [name |-> "smooth_transform", self |-> Some(sm),
                            arg |-> Some(new_tfm), ret |-> Some(r.ret)]
                /\ repeated' = (call.arg = Some(new_tfm))
                /\ ncalls' = ncalls + 1
                /\ UNCHANGED <<debug_assertions, panicked>>

SmootherNext ==
    \/ \E w \in LagWeights : NewSmoother(w)
    \/ \E w \in LagWeights : SetLagWeight(w)
    \/ \E v \in SmoothInputs : SmoothTransform(v)

SmootherSpec == SmootherInit /\ [][SmootherNext]_vars

\* ------------------------------------------------------------------------
\* The LookTransform, method by method
\* ------------------------------------------------------------------------
ValueInit ==
    /\ debug_assertions \in BOOLEAN
    /\ panicked = FALSE
    /\ sm = Smoother_new(0) /\ call = NoCall /\ repeated = FALSE /\ ncalls = 0
    /\ look = NoWorld /\ scene = NoWorld /\ smoother = NoWorld /\ rig = NoWorld
    /\ frame = 0
    /\ last_run = None
    /\ \E v \in ValueInputs : lt = Some(v)
    /\ result = NoResult

Radius ==
    /\ result' = [name |-> "radius", ret |-> Some(radius(Unwrap(lt)))]
    /\ UNCHANGED <<debug_assertions, panicked, lt>>
    /\ UNCHANGED unit_vars
    /\ UNCHANGED world_vars

LookDirection ==
    /\ result' = [name |-> "look_direction", ret |-> Some(look_direction(Unwrap(lt)))]
    /\ UNCHANGED <<debug_assertions, panicked, lt>>
    /\ UNCHANGED unit_vars
    /\ UNCHANGED world_vars

\* Transform::from(lt)
Convert ==
    /\ result' = [name |-> "into", ret |-> Some(into(Unwrap(lt)))]
    /\ UNCHANGED <<debug_assertions, panicked, lt>>
    /\ UNCHANGED unit_vars
    /\ UNCHANGED world_vars

ValueNext == Radius \/ LookDirection \/ Convert

ValueSpec == ValueInit /\ [][ValueNext]_vars

\* ------------------------------------------------------------------------
\* The world: entities, an external controller and look_transform_system
\* ------------------------------------------------------------------------
Tracking == [phase |-> "tracking", seen |-> FALSE]

Init ==
    /\ debug_assertions \in BOOLEAN
    /\ panicked = FALSE
    /\ sm = Smoother_new(0) /\ call = NoCall /\ repeated = FALSE /\ ncalls = 0
    /\ look = [e \in Entities |->
                 IF e = NoLook THEN None
                 ELSE IF e = Camera THEN Some(LookTransform_new(EyeA, TargetA))
                 ELSE Some(LookTransform_new(EyeB, TargetB))]
    /\ \E t \in PriorTransforms :
         scene = [e \in Entities |-> IF e = NoScene THEN None ELSE Some(t)]
    /\ \E w \in WorldLagWeights :
         smoother = [e \in Entities |-> IF e = Plain THEN None ELSE Some(Smoother_new(w))]
    /\ rig = [e \in Entities |-> IF e = Camera THEN Some(Tracking) ELSE None]
    /\ frame = 0
    /\ last_run = None
    /\ lt = None /\ result = NoResult

\* what the controller's writes do to the record of its doings, kept for the
\* entities that have one
Moved(o) ==
    IF IsSome(o) /\ Unwrap(o).phase \in {"disabled", "moved"}
    THEN Some([Unwrap(o) EXCEPT !.phase = "moved"])
    ELSE o
Disabled(o) == IF IsSome(o) THEN Some([phase |-> "disabled", seen |-> FALSE]) ELSE o
Enabled(o) ==
    IF ~IsSome(o) THEN o
    ELSE IF Unwrap(o).phase = "moved" THEN Some([Unwrap(o) EXCEPT !.phase = "reenabled"])
    ELSE Some(Tracking)

\* the controller moves a rig: it writes the eye and the target of its
\* LookTransform
Reposition(e, pose) ==
    /\ ~panicked
    /\ <<Unwrap(look[e]).eye, Unwrap(look[e]).target>> # pose
    /\ look' = [look EXCEPT ![e] = Some([Unwrap(@) EXCEPT !.eye = pose[1],
                                                           !.target = pose[2]])]
    /\ rig' = [rig EXCEPT ![e] = Moved(@)]
    /\ last_run' = None
    /\ UNCHANGED <<debug_assertions, panicked, scene, smoother, frame>>
    /\ UNCHANGED unit_vars
    /\ UNCHANGED value_vars

\* the controller writes the enabled flag of a LookTransform
SetEnabled(e, b) ==
    /\ ~panicked
    /\ Unwrap(look[e]).enabled # b
    /\ look' = [look EXCEPT ![e] = Some([Unwrap(@) EXCEPT !.enabled = b])]
    /\ rig' = [rig EXCEPT ![e] = IF b THEN Enabled(@) ELSE Disabled(@)]
    /\ last_run' = None
    /\ UNCHANGED <<debug_assertions, panicked, scene, smoother, frame>>
    /\ UNCHANGED unit_vars
    /\ UNCHANGED value_vars

\* the owner of a Smoother calls set_lag_weight
SetCameraLagWeight(w) ==
    /\ ~panicked
    /\ Unwrap(smoother[Camera]).lag_weight # w
    /\ smoother' = [smoother EXCEPT ![Camera] = Some(set_lag_weight(Unwrap(@), w))]
    /\ last_run' = None
    /\ UNCHANGED <<debug_assertions, panicked, look, scene, rig, frame>>
    /\ UNCHANGED unit_vars
    /\ UNCHANGED value_vars

\* a query that does not ask for a Transform
MatchingWithoutTransform == {e \in Entities : IsSome(look[e])}

\* the entities the query of look_transform_system matches
Matching == {e \in Entities : IsSome(look[e]) /\ IsSome(scene[e])}

\* the orders in which the query may yield them
Orders == {o \in [1..Cardinality(Matching) -> Matching] :
              \A i, j \in 1..Cardinality(Matching) : o[i] = o[j] => i = j}

\* the body of the loop writing the Transform whether or not the
\* LookTransform is enabled
VisitAlwaysWriting(w, e) ==
    LET look_transform == Unwrap(w.look[e])
        has_smoother == IsSome(w.smoother[e])
    IN  IF has_smoother /\ debug_assertions
            /\ ~LagWeightInRange(Unwrap(w.smoother[e]).lag_weight)
        THEN [w EXCEPT !.panicked = TRUE, !.calls[e] = @ + 1]
        ELSE LET r == IF has_smoother
                      THEN smooth_transform(Unwrap(w.smoother[e]), look_transform)
                      ELSE [self |-> None, ret |-> look_transform]
             IN  [w EXCEPT
                    !.smoother[e] = IF has_smoother THEN Some(r.self) ELSE @,
                    !.calls[e] = IF has_smoother THEN @ + 1 ELSE @,
                    !.effective[e] = Some(r.ret),
                    !.scene[e] = Some(into(r.ret))]

\* the body of the loop converting the LookTransform itself, not the
\* effective one
VisitConvertingSource(w, e) ==
    LET look_transform == Unwrap(w.look[e])
        has_smoother == IsSome(w.smoother[e])
    IN  IF has_smoother /\ debug_assertions
            /\ ~LagWeightInRange(Unwrap(w.smoother[e]).lag_weight)
        THEN [w EXCEPT !.panicked = TRUE, !.calls[e] = @ + 1]
        ELSE LET r == IF has_smoother
                      THEN smooth_transform(Unwrap(w.smoother[e]), look_transform)
                      ELSE [self |-> None, ret |-> look_transform]
             IN  [w EXCEPT
                    !.smoother[e] = IF has_smoother THEN Some(r.self) ELSE @,
                    !.calls[e] = IF has_smoother THEN @ + 1 ELSE @,
                    !.effective[e] = Some(r.ret),
                    !.scene[e] = IF look_transform.enabled
                                 THEN Some(into(look_transform))
                                 ELSE @]

\* the body of the loop writing the smoothed value back to the LookTransform
VisitWritingBack(w, e) ==
    LET look_transform == Unwrap(w.look[e])
        has_smoother == IsSome(w.smoother[e])
    IN  IF has_smoother /\ debug_assertions
            /\ ~LagWeightInRange(Unwrap(w.smoother[e]).lag_weight)
        THEN [w EXCEPT !.panicked = TRUE, !.calls[e] = @ + 1]
        ELSE LET r == IF has_smoother
                      THEN smooth_transform(Unwrap(w.smoother[e]), look_transform)
                      ELSE [self |-> None, ret |-> look_transform]
             IN  [w EXCEPT
                    !.look[e] = Some(r.ret),
                    !.smoother[e] = IF has_smoother THEN Some(r.self) ELSE @,
                    !.calls[e] = IF has_smoother THEN @ + 1 ELSE @,
                    !.effective[e] = Some(r.ret),
                    !.scene[e] = IF look_transform.enabled THEN Some(into(r.ret)) ELSE @]

\* the body of the loop writing to one Transform that all entities share
VisitWritingEveryScene(w, e) ==
    LET look_transform == Unwrap(w.look[e])
        has_smoother == IsSome(w.smoother[e])
    IN  IF has_smoother /\ debug_assertions
            /\ ~LagWeightInRange(Unwrap(w.smoother[e]).lag_weight)
        THEN [w EXCEPT !.panicked = TRUE, !.calls[e] = @ + 1]
        ELSE LET r == IF has_smoother
                      THEN smooth_transform(Unwrap(w.smoother[e]), look_transform)
                      ELSE [self |-> None, ret |-> look_transform]
             IN  [w EXCEPT
                    !.smoother[e] = IF has_smoother THEN Some(r.self) ELSE @,
                    !.calls[e] = IF has_smoother THEN @ + 1 ELSE @,
                    !.effective[e] = Some(r.ret),
                    !.scene = IF look_transform.enabled
                              THEN [x \in Entities |->
                                      IF IsSome(@[x]) THEN Some(into(r.ret)) ELSE @[x]]
                              ELSE @]

\* the body of the loop assigning the translation and the rotation of the
\* Transform and leaving its scale
VisitKeepingScale(w, e) ==
    LET look_transform == Unwrap(w.look[e])
        has_smoother == IsSome(w.smoother[e])
    IN  IF has_smoother /\ debug_assertions
            /\ ~LagWeightInRange(Unwrap(w.smoother[e]).lag_weight)
        THEN [w EXCEPT !.panicked = TRUE, !.calls[e] = @ + 1]
        ELSE LET r == IF has_smoother
                      THEN smooth_transform(Unwrap(w.smoother[e]), look_transform)
                      ELSE [self |-> None, ret |-> look_transform]
             IN  [w EXCEPT
                    !.smoother[e] = IF has_smoother THEN Some(r.self) ELSE @,
                    !.calls[e] = IF has_smoother THEN @ + 1 ELSE @,
                    !.effective[e] = Some(r.ret),
                    !.scene[e] = IF look_transform.enabled
                                 THEN Some([into(r.ret) EXCEPT
                                              !.scale = Unwrap(w.scene[e]).scale])
                                 ELSE @]

\* the body of the loop for one entity
Visit(w, e) ==
    LET look_transform == Unwrap(w.look[e])
        has_smoother == IsSome(w.smoother[e])
    IN  IF has_smoother /\ debug_assertions
            /\ ~LagWeightInRange(Unwrap(w.smoother[e]).lag_weight)
        THEN [w EXCEPT !.panicked = TRUE, !.calls[e] = @ + 1]
        ELSE LET r == IF has_smoother
                      THEN smooth_transform(Unwrap(w.smoother[e]), look_transform)
                      ELSE [self |-> None, ret |-> look_transform]
                 effective_look_transform == r.ret
             IN  [w EXCEPT
                    !.smoother[e] = IF has_smoother THEN Some(r.self) ELSE @,
                    !.calls[e] = IF has_smoother THEN @ + 1 ELSE @,
                    !.effective[e] = Some(effective_look_transform),
                    !.scene[e] = IF look_transform.enabled
                                 THEN Some(into(effective_look_transform))
                                 ELSE @]

RECURSIVE RunFrom(_, _, _)
RunFrom(w, order, i) ==
    IF i > Len(order) \/ w.panicked THEN w
    ELSE RunFrom(Visit(w, order[i]), order, i + 1)

\* the components as look_transform_system finds them in the world prior,
\* with nothing visited yet
BeforeRun(prior) ==
    [look |-> prior.look, scene |-> prior.scene, smoother |-> prior.smoother,
     panicked |-> FALSE, effective |-> NoWorld, calls |-> [e \in Entities |-> 0]]

\* one run of look_transform_system over the entities in the given order,
\* started in the world prior
RunSystemFrom(prior, order) == RunFrom(BeforeRun(prior), order, 1)

\* one run of look_transform_system over the entities in the given order
RunSystem(order) ==
    RunSystemFrom([look |-> look, scene |-> scene, smoother |-> smoother], order)

\* the record of the controller's doings once the frame has run
AfterFrame(e, visited) ==
    IF ~IsSome(rig[e]) \/ ~visited THEN rig[e]
    ELSE LET r == Unwrap(rig[e])
         IN  IF r.phase = "reenabled" THEN Some(Tracking)
             ELSE IF r.phase \in {"disabled", "moved"} THEN Some([r EXCEPT !.seen = TRUE])
             ELSE Some(r)

LookTransformSystem ==
    /\ ~panicked
    /\ frame < MaxFrames
    /\ \E order \in Orders :
         LET w == RunSystem(order)
         IN  /\ look' = w.look
             /\ scene' = w.scene
             /\ smoother' = w.smoother
             /\ panicked' = w.panicked
             /\ rig' = [e \in Entities |-> AfterFrame(e, IsSome(w.effective[e]))]
             /\ last_run' = Some([look |-> look, scene |-> scene, smoother |-> smoother,
                                  rig |-> rig, effective |-> w.effective,
                                  calls |-> w.calls])
    /\ frame' = frame + 1
    /\ UNCHANGED debug_assertions
    /\ UNCHANGED unit_vars
    /\ UNCHANGED value_vars

Next ==
    \/ \E pose \in Poses : Reposition(Camera, pose)
    \/ \E e \in Rigs, b \in BOOLEAN : SetEnabled(e, b)
    \/ \E w \in WorldLagWeights : SetCameraLagWeight(w)
    \/ LookTransformSystem

Spec == Init /\ [][Next]_vars

\* ------------------------------------------------------------------------
\* Claims about look_transform_system (checked under Spec)
\* ------------------------------------------------------------------------
\* look_transform_system has just run to its end
JustRan == IsSome(last_run) /\ ~panicked
Before == Unwrap(last_run)
\* the entities the run visited
Visited == {e \in Entities : IsSome(Before.effective[e])}
Effective(e) == Unwrap(Before.effective[e])
Look(e) == Unwrap(look[e])

\* C2: an entity whose LookTransform is disabled when the update routine
\* runs keeps its scene Transform, with or without a Smoother.
C2_DisabledKeepsTransform ==
    IsSome(last_run) =>
        \A e \in Entities :
            (IsSome(look[e]) /\ ~Look(e).enabled) => scene[e] = Before.scene[e]

\* the routine has run on a disabled Camera whose Smoother took a new value,
\* and the Transform it kept is not the one the LookTransform converts to
C2_Witness ==
    /\ JustRan
    /\ ~Look(Camera).enabled
    /\ smoother[Camera] # Before.smoother[Camera]
    /\ scene[Camera] = Before.scene[Camera]
    /\ scene[Camera] # Some(into(Look(Camera)))
    /\ ~Look(Plain).enabled
    /\ scene[Plain] # Some(into(Look(Plain)))

\* C3 as stated: after the controller has disabled a LookTransform, moved it
\* and enabled it again, the next update yields exactly the new eye and
\* target, for a lag weight in [0,1).
C3_NoBlendAcrossJumpAsStated ==
    (JustRan /\ Before.rig[Camera] # None
        /\ Unwrap(Before.rig[Camera]).phase = "reenabled"
        /\ LagWeightInRange(Unwrap(Before.smoother[Camera]).lag_weight))
        => /\ Effective(Camera).eye = Look(Camera).eye
           /\ Effective(Camera).target = Look(Camera).target

\* C3, amended: the same, provided the update routine ran at least once
\* while the LookTransform was disabled.
C3_NoBlendAcrossJump ==
    (JustRan /\ Before.rig[Camera] # None
        /\ Unwrap(Before.rig[Camera]).phase = "reenabled"
        /\ Unwrap(Before.rig[Camera]).seen
        /\ LagWeightInRange(Unwrap(Before.smoother[Camera]).lag_weight))
        => /\ Effective(Camera).eye = Look(Camera).eye
           /\ Effective(Camera).target = Look(Camera).target

\* the first update after a jump made while disabled, on a Smoother that
\* blends (lag weight 3/8) and whose stored value is at the old place
C3_Witness ==
    /\ JustRan
    /\ Unwrap(Before.rig[Camera]).phase = "reenabled"
    /\ Unwrap(Before.rig[Camera]).seen
    /\ Unwrap(Before.smoother[Camera]).lag_weight = 3 * (One \div 8)
    /\ Unwrap(Unwrap(Before.smoother[Camera]).lerp_tfm).eye # Look(Camera).eye
    /\ Look(Camera).enabled
    /\ Effective(Camera).eye = Look(Camera).eye

\* C10: an entity whose LookTransform is enabled when the update routine
\* runs gets the Transform its effective LookTransform converts to - the
\* smoothed one with a Smoother, the LookTransform itself without - placed
\* at the effective eye.
C10_EnabledGetsConvertedEffective ==
    JustRan =>
        \A e \in Entities :
            (IsSome(look[e]) /\ IsSome(scene[e]) /\ Look(e).enabled) =>
                LET expected == IF IsSome(Before.smoother[e])
                                THEN Smoothed(Unwrap(Before.smoother[e]), Look(e))
                                ELSE Look(e)
                IN  /\ Before.effective[e] = Some(expected)
                    /\ scene[e] = Some(eye_look_at_target_transform(
                                          expected.eye, expected.target, expected.up))
                    /\ Unwrap(scene[e]).translation = expected.eye

\* the routine has run on an enabled Camera whose Smoother moved the eye off
\* the LookTransform's, and on an enabled entity without a Smoother
C10_Witness ==
    /\ JustRan
    /\ Look(Camera).enabled /\ Look(Plain).enabled
    /\ Effective(Camera).eye # Look(Camera).eye
    /\ scene[Camera] = Some(into(Effective(Camera)))
    /\ scene[Camera] # Some(into(Look(Camera)))
    /\ scene[Camera] # Before.scene[Camera]
    /\ scene[Plain] = Some(into(Look(Plain)))
    /\ scene[Plain] # Before.scene[Plain]

\* C12: a run of the update routine, smoothing and converting included,
\* changes no field of any LookTransform: eye, target, up and enabled are
\* after the run what they were before it.
C12_LookTransformsUntouched ==
    IsSome(last_run) => look = Before.look

\* a run that smoothed the Camera to another value than its LookTransform
\* and wrote its Transform, the LookTransform being as it was
C12_Witness ==
    /\ JustRan
    /\ Look(Camera).enabled
    /\ IsSome(Unwrap(Before.smoother[Camera]).lerp_tfm)
    /\ Unwrap(Unwrap(Before.smoother[Camera]).lerp_tfm).eye # Look(Camera).eye
    /\ Effective(Camera) # Look(Camera)
    /\ Unwrap(smoother[Camera]).lerp_tfm = Some(Effective(Camera))
    /\ scene[Camera] # Before.scene[Camera]
    /\ look[Camera] = Before.look[Camera]

\* the world a run leaves, as far as an order of visiting can bear on it
Outcome(w) ==
    IF w.panicked THEN [panicked |-> TRUE]
    ELSE [panicked |-> FALSE, look |-> w.look, scene |-> w.scene, smoother |-> w.smoother]

\* the body of the loop for entity e changes no component of another entity
TouchesOnly(w, e) ==
    LET after == Visit(w, e)
    IN  \A x \in Entities \ {e} :
            /\ after.look[x] = w.look[x]
            /\ after.scene[x] = w.scene[x]
            /\ after.smoother[x] = w.smoother[x]

\* C13: the per-entity updates of one frame commute: whatever the order in
\* which the entities are visited, the run fails an assertion or does not,
\* and when it completes every entity's Smoother and Transform are the same;
\* and a visit to one entity changes no Smoother, LookTransform or Transform
\* of another.
C13_UpdatesCommute ==
    IsSome(last_run) =>
        \A order \in Orders :
            /\ Outcome(RunSystemFrom(Before, order))
                 = Outcome([panicked |-> panicked, look |-> look, scene |-> scene,
                            smoother |-> smoother])
            /\ \A i \in 1..Len(order) :
                 LET w == RunFrom(BeforeRun(Before), SubSeq(order, 1, i - 1), 1)
                 IN  ~w.panicked => TouchesOnly(w, order[i])

\* a run over two entities, visited in either order, that blended in the
\* Camera's Smoother and wrote both Transforms
C13_Witness ==
    /\ JustRan
    /\ Cardinality(Orders) >= 2
    /\ Visited = {Camera, Plain}
    /\ IsSome(Unwrap(Before.smoother[Camera]).lerp_tfm)
    /\ smoother[Camera] # Before.smoother[Camera]
    /\ scene[Camera] # Before.scene[Camera]
    /\ scene[Plain] # Before.scene[Plain]
    /\ scene[Camera] # scene[Plain]

\* C15 as stated: a run calls smooth_transform exactly once for each entity
\* with a LookTransform and a Smoother and never for another, and changes
\* neither Smoother nor Transform of an entity without a LookTransform.
C15_SmoothedOnceAsStated ==
    JustRan =>
        \A e \in Entities :
            /\ Before.calls[e] = IF IsSome(look[e]) /\ IsSome(Before.smoother[e])
                                  THEN 1 ELSE 0
            /\ ~IsSome(look[e]) =>
                    smoother[e] = Before.smoother[e] /\ scene[e] = Before.scene[e]

\* C15, amended: a run calls smooth_transform at most once for an entity,
\* and only for one with a LookTransform, a Transform and a Smoother; a run
\* that completes has called it for each of these; an entity that lacks the
\* LookTransform or the Transform has neither Smoother nor Transform changed.
C15_SmoothedOnce ==
    IsSome(last_run) =>
        \A e \in Entities :
            LET queried == IsSome(look[e]) /\ IsSome(Before.scene[e])
            IN  /\ Before.calls[e] <= 1
                /\ Before.calls[e] = 1 => (queried /\ IsSome(Before.smoother[e]))
                /\ (~panicked /\ queried /\ IsSome(Before.smoother[e]))
                        => Before.calls[e] = 1
                /\ ~queried =>
                        smoother[e] = Before.smoother[e] /\ scene[e] = Before.scene[e]

\* a run that called smooth_transform for the Camera, disabled, and for no
\* other entity, the entities outside the query keeping their Smoothers
C15_Witness ==
    /\ JustRan
    /\ ~Look(Camera).enabled
    /\ Before.calls = [e \in Entities |-> IF e = Camera THEN 1 ELSE 0]
    /\ smoother[Camera] # Before.smoother[Camera]
    /\ IsSome(smoother[NoScene]) /\ smoother[NoScene] = Before.smoother[NoScene]
    /\ IsSome(smoother[NoLook]) /\ smoother[NoLook] = Before.smoother[NoLook]
    /\ scene[NoLook] = Before.scene[NoLook]

\* C16: the Transform a run writes is the conversion of the effective
\* LookTransform and nothing else: started with any other Transform in its
\* place, and the same LookTransform and Smoother, the run writes the same.
C16_PriorTransformNotRead ==
    JustRan =>
        \A e \in Visited :
            Look(e).enabled =>
                /\ scene[e] = Some(into(Effective(e)))
                /\ \A t \in PriorTransforms, order \in Orders :
                     RunSystemFrom([Before EXCEPT !.scene[e] = Some(t)], order).scene[e]
                        = scene[e]

\* a run that overwrote a Transform differing from the identity in
\* translation, rotation and scale, smoothing on the way
C16_Witness ==
    /\ JustRan
    /\ Look(Camera).enabled
    /\ Before.scene[Camera] = Some(Elsewhere)
    /\ Effective(Camera) # Look(Camera)
    /\ scene[Camera] = Some(into(Effective(Camera)))
    /\ Unwrap(scene[Camera]).scale = VecOne
    /\ Unwrap(scene[Camera]).translation # VecOne

\* C17: after the update routine has run on an entity with a Smoother whose
\* LookTransform is disabled, the Smoother's stored value is that
\* LookTransform, and the Transform was not written.
C17_SmootherTracksWhileDisabled ==
    JustRan =>
        \A e \in Visited :
            (IsSome(smoother[e]) /\ ~Look(e).enabled) =>
                /\ Unwrap(smoother[e]).lerp_tfm = Some(Look(e))
                /\ scene[e] = Before.scene[e]

\* a run on the Camera, disabled and moved since its Smoother last stored an
\* enabled value: the Smoother now holds the new place, the Transform the old
C17_Witness ==
    /\ JustRan
    /\ ~Look(Camera).enabled
    /\ IsSome(Unwrap(Before.smoother[Camera]).lerp_tfm)
    /\ Unwrap(Unwrap(Before.smoother[Camera]).lerp_tfm).enabled
    /\ Unwrap(Unwrap(Before.smoother[Camera]).lerp_tfm).eye # Look(Camera).eye
    /\ Unwrap(smoother[Camera]).lerp_tfm = Some(Look(Camera))
    /\ scene[Camera] = Before.scene[Camera]
    /\ scene[Camera] # Some(into(Look(Camera)))

\* C19: a Smoother with lag weight 0 is transparent: smooth_transform
\* returns its argument, and the entity's Transform after the run is the one
\* the run would have left had the entity no Smoother.
C19_ZeroLagIsTransparent ==
    JustRan =>
        \A e \in Visited :
            (IsSome(Before.smoother[e]) /\ Unwrap(Before.smoother[e]).lag_weight = 0) =>
                /\ Effective(e) = Look(e)
                /\ \A order \in Orders :
                     RunSystemFrom([Before EXCEPT !.smoother[e] = None], order).scene[e]
                        = scene[e]

\* a run with lag weight 0 on a Smoother holding an enabled value at another
\* place than the enabled LookTransform, which it returned as it is
C19_Witness ==
    /\ JustRan
    /\ Unwrap(Before.smoother[Camera]).lag_weight = 0
    /\ IsSome(Unwrap(Before.smoother[Camera]).lerp_tfm)
    /\ Unwrap(Unwrap(Before.smoother[Camera]).lerp_tfm).enabled
    /\ Unwrap(Unwrap(Before.smoother[Camera]).lerp_tfm).eye # Look(Camera).eye
    /\ Look(Camera).enabled
    /\ Effective(Camera) = Look(Camera)
    /\ scene[Camera] = Some(into(Look(Camera)))

\* ------------------------------------------------------------------------
\* Claims about the Smoother (checked under SmootherSpec)
\* ------------------------------------------------------------------------
IsSmoothCall == call.name = "smooth_transform"
CallSelf == Unwrap(call.self)
CallArg == Unwrap(call.arg)
CallRet == Unwrap(call.ret)
CallOld == Unwrap(CallSelf.lerp_tfm)
HadOld == IsSome(CallSelf.lerp_tfm)

\* x lies between a and b
Between(x, a, b) ==
    /\ IsFinite(x)
    /\ (IF a <= b THEN a ELSE b) <= x
    /\ x <= (IF a <= b THEN b ELSE a)
VBetween(x, a, b) == \A i \in 1..3 : Between(x[i], a[i], b[i])

\* x is at least as near v as y is, component by component
VNotFarther(x, y, v) == \A i \in 1..3 : Abs(x[i] - v[i]) <= Abs(y[i] - v[i])

\* C1: when new_value is disabled, or the stored previous smoothed value
\* exists and is disabled, smooth_transform returns new_value in all fields.
C1_BypassWhenDisabled ==
    (IsSmoothCall /\ (~CallArg.enabled \/ (HadOld /\ ~CallOld.enabled)))
        => CallRet = CallArg

\* a call with an enabled argument on a Smoother whose stored value is
\* disabled and elsewhere, with a lag weight that would have blended
C1_Witness ==
    /\ IsSmoothCall
    /\ CallArg.enabled
    /\ HadOld /\ ~CallOld.enabled
    /\ CallOld.eye # CallArg.eye
    /\ CallSelf.lag_weight = 3 * Quarter
    /\ CallRet = CallArg

\* C4: the first call on a fresh Smoother with a lag weight in [0,1) returns
\* its argument unchanged in all fields.
C4_FirstCallPassThrough ==
    (IsSmoothCall /\ ~HadOld /\ LagWeightInRange(CallSelf.lag_weight))
        => CallRet = CallArg

\* C5: with both sides enabled and w in [0,1), eye and target are
\* previous * w + new * (1 - w) and every component lies between the
\* previous and the new one.
C5_BlendOnSegment ==
    (IsSmoothCall /\ HadOld /\ CallOld.enabled /\ CallArg.enabled
        /\ LagWeightInRange(CallSelf.lag_weight))
        => LET w == CallSelf.lag_weight
               lead == FSub(One, w)
           IN  /\ CallRet.eye = VAdd(VScale(CallOld.eye, w), VScale(CallArg.eye, lead))
               /\ CallRet.target =
                    VAdd(VScale(CallOld.target, w), VScale(CallArg.target, lead))
               /\ VBetween(CallRet.eye, CallOld.eye, CallArg.eye)
               /\ VBetween(CallRet.target, CallOld.target, CallArg.target)

\* C6: repeating smooth_transform(v) for a constant enabled v never moves
\* the output away from v, and once the stored value is v every call
\* returns v and keeps v stored.
C6_ConvergesToFixedPoint ==
    (IsSmoothCall /\ HadOld /\ CallOld.enabled /\ CallArg.enabled
        /\ LagWeightInRange(CallSelf.lag_weight))
        => /\ repeated =>
                /\ VNotFarther(CallRet.eye, CallOld.eye, CallArg.eye)
                /\ VNotFarther(CallRet.target, CallOld.target, CallArg.target)
           /\ CallOld = CallArg =>
                /\ CallRet = CallArg
                /\ sm.lerp_tfm = Some(CallArg)

\* C7: after any Smoother::new and set_lag_weight calls the lag weight is in
\* [0,1), so the assertions of smooth_transform never fail.
C7_LagWeightInRange == LagWeightInRange(sm.lag_weight) /\ ~panicked

\* C11: whichever branch a smooth_transform call takes, the up and the
\* enabled flag it returns are those of new_value, and the value left stored
\* carries the enabled flag of that input.
C11_OtherFieldsFromNewValue ==
    IsSmoothCall =>
        /\ CallRet.up = CallArg.up
        /\ CallRet.enabled = CallArg.enabled
        /\ IsSome(sm.lerp_tfm)
        /\ Unwrap(sm.lerp_tfm).enabled = CallArg.enabled
        /\ Unwrap(sm.lerp_tfm).up = CallArg.up

\* a blending call whose argument has another up than the stored value, and
\* a moved eye
C11_Witness ==
    /\ IsSmoothCall
    /\ HadOld /\ CallOld.enabled /\ CallArg.enabled
    /\ CallOld.up # CallArg.up
    /\ CallRet.eye # CallArg.eye
    /\ CallRet.up = CallArg.up
    /\ Unwrap(sm.lerp_tfm).up = CallArg.up

\* C14: after every smooth_transform call, blending or not, the stored
\* previous smoothed value is present and is the value the call returned.
C14_StoresWhatItReturns ==
    IsSmoothCall => sm.lerp_tfm = Some(CallRet)

\* a call that blended, returning something else than its argument, and a
\* call that did not blend, both leaving what they returned stored
C14_Witness ==
    /\ IsSmoothCall
    /\ HadOld
    /\ sm.lerp_tfm = Some(CallRet)
    /\ \/ CallOld.enabled /\ CallArg.enabled /\ CallRet # CallArg /\ CallRet # CallOld
       \/ ~CallArg.enabled /\ CallOld.enabled /\ CallRet # CallOld

\* C18: the stored previous value is absent exactly until the first
\* smooth_transform call after Smoother::new, and a step that is neither that
\* constructor nor a smooth_transform call (set_lag_weight) leaves it as it
\* is.
C18_StoredValueStays ==
    /\ [](IsSome(sm.lerp_tfm) <=> ncalls > 0)
    /\ [][ncalls' = ncalls => sm'.lerp_tfm = sm.lerp_tfm]_vars

\* set_lag_weight has changed the lag weight after a call, and the value the
\* call stored is still there
C18_Witness ==
    /\ IsSmoothCall
    /\ ncalls > 0
    /\ sm.lag_weight # CallSelf.lag_weight
    /\ sm.lerp_tfm = Some(CallRet)

\* ------------------------------------------------------------------------
\* Claims about the LookTransform (checked under ValueSpec)
\* ------------------------------------------------------------------------
Eye == Unwrap(lt).eye
Target == Unwrap(lt).target
Returned == Unwrap(result.ret)

\* C8: converting a LookTransform whose eye equals its target yields a
\* Transform with no NaN or undefined field, positioned at the eye.
C8_CoincidentConversionIsFinite ==
    (result.name = "into" /\ Eye = Target)
        => /\ TransformIsFinite(Returned)
           /\ Returned.translation = Eye

\* the length of v, squared, exactly, in squared grid units
ExactLengthSquared(v) == v[1] * v[1] + v[2] * v[2] + v[3] * v[3]
\* v has length 1 up to the precision of the format
NearlyUnit(v) ==
    /\ VIsFinite(v)
    /\ 16 * ExactLengthSquared(v) >= 9 * One * One
    /\ 16 * ExactLengthSquared(v) <= 25 * One * One
\* every component of v has the sign of the component of d, or is zero
SameSigns(v, d) ==
    \A i \in 1..3 : (v[i] > 0 => d[i] > 0) /\ (v[i] < 0 => d[i] < 0)

\* C9 as stated: look_direction() is None when eye = target and otherwise
\* the unit vector along target - eye.
C9_LookDirectionAsStated ==
    result.name = "look_direction"
        => /\ Eye = Target => Returned = None
           /\ Eye # Target =>
                /\ IsSome(Returned)
                /\ NearlyUnit(Unwrap(Returned))
                /\ SameSigns(Unwrap(Returned), VSub(Target, Eye))

\* x is zero or a normal number: at least the smallest float with a full
\* significand
IsNormalOrZero(x) == x = 0 \/ (IsFinite(x) /\ Abs(x) >= Radix \div 2)

\* C9, amended: look_direction() is None when eye = target, and is None for
\* distinct eye and target only when the squared length of target - eye
\* underflows to zero or overflows; a vector it returns is finite, not zero
\* and points from eye to target, with length 1 up to rounding when no square
\* of a component underflows.
C9_LookDirection ==
    result.name = "look_direction"
        => LET d == VSub(Target, Eye)
               len2 == VDot(d, d)
           IN  /\ Eye = Target => Returned = None
               /\ Returned = None => (len2 = 0 \/ ~IsFinite(len2))
               /\ IsSome(Returned) =>
                    /\ VIsFinite(Unwrap(Returned))
                    /\ Unwrap(Returned) # VecZero
                    /\ SameSigns(Unwrap(Returned), d)
                    /\ (\A i \in 1..3 : IsNormalOrZero(FMul(d[i], d[i])))
                          => NearlyUnit(Unwrap(Returned))

\* look_direction() has returned a vector with two components for an eye
\* and a target that differ
C9_Witness ==
    /\ result.name = "look_direction"
    /\ Eye = VecOne /\ Target = Vec3(3 * One, 4 * One, 0)
    /\ IsSome(Returned)
    /\ Unwrap(Returned)[1] > 0 /\ Unwrap(Returned)[3] < 0

====
